---- MODULE Spec2Model ----
(***************************************************************************)
(* Model of apps/backend/src/lib/events.tsx: the event type catalogue, the *)
(* inheritance closure, the validation pipeline, the time extent and the   *)
(* record handed to prismaClient.event.create by logEvent.                 *)
(***************************************************************************)
EXTENDS Integers, Sequences, FiniteSets, TLC

(***************************************************************************)
(* Bounds of the model.                                                    *)
(***************************************************************************)
\* longest eventTypes list a caller passes
MaxReq == 2
\* longest inherits list of a caller-made event type
MaxInherits == 2
\* Date values, those new Date() returns included, are 0..MaxClock
MaxClock == 1
\* number of logEvent calls in flight in SpecConc
NumCalls == 2
\* depth of the call stack available to addEventType before a RangeError
StackLimit == 8

Calls == 1 .. NumCalls
Instants == 0 .. MaxClock

Range(s) == {s[i] : i \in 1 .. Len(s)}
SeqsUpTo(S, n) == UNION {[1 .. k -> S] : k \in 0 .. n}

(***************************************************************************)
(* Event type objects.  An EventType is an object {id, dataSchema,         *)
(* inherits}; objects are compared by identity, so an object is named here *)
(* by its reference.  The four system event types are the module's         *)
(* constants; CallerTypes are EventType objects a caller builds itself     *)
(* (logEvent<T extends EventType[]> accepts any).                          *)
(***************************************************************************)
SystemTypes == {"Project", "ProjectActivity", "UserActivity", "ApiRequest"}
CallerTypes == {"Caller1", "Caller2"}
Types == SystemTypes \cup CallerTypes

\* An identifier is its text split after the first character position:
\* <<"$", rest>> for `$${string}`, <<"", rest>> otherwise.
StartsWithDollar(id) == id[1] = "$"

\* yup schemas.  kind "object" is yupObject({...}) with the listed required
\* fields; the caller-made kinds stand for any other yup.Schema<any>.
ProjectSchema ==
    [kind |-> "object", required |-> [projectId |-> {"string", "uuid", "url", "method"}]]
ProjectActivitySchema ==
    [kind |-> "object", required |-> <<>>]
UserActivitySchema ==
    [kind |-> "object", required |-> [userId |-> {"uuid"}]]
ApiRequestSchema ==
    [kind |-> "object",
     required |-> [method |-> {"method"}, url |-> {"url"}, headers |-> {"object"}]]

ProjectEventType ==
    [id |-> <<"$", "project">>, dataSchema |-> ProjectSchema, inherits |-> <<>>]
ProjectActivityEventType ==
    [id |-> <<"$", "project-activity">>, dataSchema |-> ProjectActivitySchema,
     inherits |-> <<"Project">>]
UserActivityEventType ==
    [id |-> <<"$", "user-activity">>, dataSchema |-> UserActivitySchema,
     inherits |-> <<"ProjectActivity">>]
ApiRequestEventType ==
    [id |-> <<"$", "api-request">>, dataSchema |-> ApiRequestSchema,
     inherits |-> <<"Project">>]

SystemEventTypes ==
    [Project |-> ProjectEventType,
     ProjectActivity |-> ProjectActivityEventType,
     UserActivity |-> UserActivityEventType,
     ApiRequest |-> ApiRequestEventType]

\* new Map(Object.values(SystemEventTypes).map(t => [t.id, t])): the keys
SystemEventTypeIds == {SystemEventTypes[k].id : k \in DOMAIN SystemEventTypes}
\* systemEventTypesById.has(id)
RegistryHas(id) == id \in SystemEventTypeIds

(***************************************************************************)
(* yup: schema.validate(value, {strict: true, stripUnknown: false}).  In   *)
(* strict mode an object schema casts nothing and resolves with the value  *)
(* it was given, unknown fields included; it rejects with a                *)
(* ValidationError when a required field is missing or of the wrong type.  *)
(* A payload is a function from field names to the type of the value held. *)
(***************************************************************************)
Fulfilled(value) == [status |-> "fulfilled", value |-> value]
Rejected(error) == [status |-> "rejected", error |-> error]

SchemaValidate(schema, value) ==
    CASE schema.kind = "object" ->
           IF \A f \in DOMAIN schema.required :
                  f \in DOMAIN value /\ value[f] \in schema.required[f]
           THEN Fulfilled(value)
           ELSE Rejected([name |-> "ValidationError"])
      [] schema.kind = "transform" ->
           Fulfilled((schema.sets :> "string") @@ value)
      [] schema.kind = "reject" ->
           Rejected([name |-> "ValidationError"])
      [] OTHER ->
           Rejected([name |-> "TypeError"])

(***************************************************************************)
(* State.                                                                  *)
(***************************************************************************)
VARIABLES
    types,          \* the EventType objects: reference -> {id, dataSchema, inherits}
    requests,       \* the arguments each caller passes to logEvent
    pc,             \* position of each call in logEvent
    timeRange,      \* local timeRange
    isWide,         \* local isWide
    allEventTypes,  \* local Set<EventType>, in insertion order
    data,           \* local data (reassigned by the pipeline)
    cursor,         \* position of the for-of iterator over allEventTypes
    error,          \* what the call threw
    validated,      \* the dataSchema.validate invocations of the call
    created,        \* the prismaClient.event.create invocations of the call
    now             \* what new Date() returned to the call, if it was evaluated

vars == <<types, requests, pc, timeRange, isWide, allEventTypes, data,
          cursor, error, validated, created, now>>

NoRequest == [none |-> TRUE]
NoError == [name |-> "none"]
NoTime == [none |-> TRUE]

\* options.time: a Date, or {start, end}; options may lack the key.
DateValue(t) == [date |-> t]
TimeOptions ==
    {<<>>}
    \cup {[time |-> DateValue(t)] : t \in Instants}
    \cup {[time |-> [start |-> DateValue(s), end |-> DateValue(e)]] :
             s \in Instants, e \in Instants}

\* payloads a caller passes
Payloads ==
    {<<>>,
     [projectId |-> "string"],
     [projectId |-> "string", userId |-> "uuid", method |-> "method",
      url |-> "url", headers |-> "object", note |-> "string"]}

FullPayload ==
    [projectId |-> "string", userId |-> "uuid", method |-> "method",
     url |-> "url", headers |-> "object", note |-> "string"]

CallerIds == {<<"$", "project">>, <<"$", "ghost">>, <<"", "custom">>}
Transform(t) == [kind |-> "transform", sets |-> t]
CallerSchemas(t) == {Transform(t), [kind |-> "reject"], [kind |-> "crash"]}

\* the heap: the system event types as the module defines them, plus the
\* caller-made ones
Heap(c1, c2) ==
    [t \in Types |-> IF t \in SystemTypes THEN SystemEventTypes[t]
                     ELSE IF t = "Caller1" THEN c1 ELSE c2]

\* Inheritance graphs: Caller1 carries a registered identifier and inherits
\* from any types, itself and Caller2 included; Caller2 is a custom type
\* that stands alone or derives from Caller1.
GraphHeaps ==
    {Heap([id |-> <<"$", "project">>, dataSchema |-> Transform("Caller1"), inherits |-> i1],
          [id |-> <<"", "custom">>, dataSchema |-> Transform("Caller2"), inherits |-> i2]) :
        i1 \in SeqsUpTo(Types, MaxInherits), i2 \in {<<>>, <<"Caller1">>}}
GraphRequests ==
    [eventTypes : SeqsUpTo(Types, MaxReq), data : {FullPayload},
     options : {[time |-> DateValue(0)]}]

\* Pipelines: caller-made types with any identifier and any schema, Caller1
\* alone or above ProjectActivity or Caller2; every payload.
PipelineHeaps ==
    {Heap([id |-> id1, dataSchema |-> s1, inherits |-> i1],
          [id |-> <<"", "custom">>, dataSchema |-> s2, inherits |-> <<>>]) :
        id1 \in CallerIds, s1 \in CallerSchemas("Caller1"),
        i1 \in {<<>>, <<"ProjectActivity">>, <<"Caller2">>},
        s2 \in CallerSchemas("Caller2")}
PipelineRequests ==
    [eventTypes : SeqsUpTo(Types, MaxReq), data : Payloads,
     options : {[time |-> DateValue(0)]}]

\* Time extents: every shape of options.time.
TimeHeaps ==
    {Heap([id |-> <<"$", "project">>, dataSchema |-> Transform("Caller1"), inherits |-> <<>>],
          [id |-> <<"", "custom">>, dataSchema |-> Transform("Caller2"), inherits |-> <<>>])}
TimeRequests ==
    [eventTypes : SeqsUpTo(Types, MaxReq), data : {FullPayload}, options : TimeOptions]

(***************************************************************************)
(* logEvent, lines 78-80: the time extent.                                 *)
(***************************************************************************)
\* new Date(), the right operand of ??: evaluated only when options.time is
\* missing, and then any instant
NewDate(options) ==
    IF "time" \in DOMAIN options THEN {NoTime} ELSE {DateValue(t) : t \in Instants}
\* options.time ?? new Date()
TimeOrTimeRange(options, fresh) ==
    IF "time" \in DOMAIN options THEN options.time ELSE fresh
\* "start" in x && "end" in x
HasStartAndEnd(x) == "start" \in DOMAIN x /\ "end" \in DOMAIN x
TimeRange(x) == IF HasStartAndEnd(x) THEN x ELSE [start |-> x, end |-> x]
\* timeOrTimeRange === timeRange: the same object only when the first branch
\* of the conditional returned it; the literal of the second is a new object.
\* variant: wide when the extent is not degenerate
IsWideByExtent(x) == TimeRange(x).start # TimeRange(x).end
IsWide(x) == HasStartAndEnd(x)

(***************************************************************************)
(* logEvent, lines 82-91: every requested type must be a system type known *)
(* to the registry.  The loop throws at the first type that is not.        *)
(***************************************************************************)
\* variant: the registry is not consulted
IsSystemEventTypeByPrefix(heap, t) == StartsWithDollar(heap[t].id)
IsSystemEventType(heap, t) ==
    StartsWithDollar(heap[t].id) /\ RegistryHas(heap[t].id)

AssertionErrorFor(heap, t) ==
    IF StartsWithDollar(heap[t].id)
    THEN [name |-> "StackAssertionError", message |-> "Invalid system event type",
          eventType |-> t]
    ELSE [name |-> "StackAssertionError",
          message |-> "Non-system event types are not supported yet", eventType |-> t]

RECURSIVE CheckEventTypesFrom(_, _, _)
CheckEventTypesFrom(heap, eventTypes, i) ==
    IF i > Len(eventTypes) THEN NoError
    ELSE IF IsSystemEventType(heap, eventTypes[i])
         THEN CheckEventTypesFrom(heap, eventTypes, i + 1)
         ELSE AssertionErrorFor(heap, eventTypes[i])

(***************************************************************************)
(* logEvent, lines 94-103: the inheritance closure.  allEventTypes is a    *)
(* Set keyed by object identity and iterated in insertion order; it is     *)
(* kept as the sequence of its members.  calls counts the invocations of   *)
(* addEventType, depth is the deepest recursion, overflow says that the    *)
(* recursion ran out of stack (a RangeError).                              *)
(***************************************************************************)
EmptyClosure == [set |-> <<>>, calls |-> 0, depth |-> 0, overflow |-> FALSE]

\* variant: no membership test
SetHasNever(set, t) == FALSE
\* allEventTypes.has(eventType)
SetHas(set, t) == t \in Range(set)

RECURSIVE AddEventType(_, _, _, _)
RECURSIVE ForEachAddEventType(_, _, _, _)
\* variant: a type is added after its parents
AddEventTypeParentsFirst(heap, st, t, depth) ==
    IF st.overflow THEN st
    ELSE IF depth > StackLimit THEN [st EXCEPT !.overflow = TRUE]
    ELSE LET entered == [st EXCEPT !.calls = @ + 1,
                                   !.depth = IF depth > @ THEN depth ELSE @]
         IN  IF SetHas(entered.set, t) THEN entered
             ELSE LET after == ForEachAddEventType(heap, entered, heap[t].inherits,
                                                   depth + 1)
                  IN  [after EXCEPT !.set = Append(@, t)]
AddEventType(heap, st, t, depth) ==
    IF st.overflow THEN st
    ELSE IF depth > StackLimit THEN [st EXCEPT !.overflow = TRUE]
    ELSE LET entered == [st EXCEPT !.calls = @ + 1,
                              !.depth = IF depth > @ THEN depth ELSE @]
         IN  IF SetHas(entered.set, t) THEN entered
             ELSE ForEachAddEventType(heap, [entered EXCEPT !.set = Append(@, t)],
                                      heap[t].inherits, depth + 1)
ForEachAddEventType(heap, st, list, depth) ==
    IF list = <<>> THEN st
    ELSE ForEachAddEventType(heap, AddEventType(heap, st, Head(list), depth),
                             Tail(list), depth)

\* eventTypes.forEach(addEventType)
SelectAllEventTypes(heap, eventTypes) ==
    ForEachAddEventType(heap, EmptyClosure, eventTypes, 1)

(***************************************************************************)
(* logEvent, lines 106-129.                                                *)
(***************************************************************************)
\* variant: the error carries the original payload as data
InvalidEventDataOriginal(t, value, cause, originalData, originalEventTypes) ==
    [name |-> "StackAssertionError", message |-> "Invalid event data for event type",
     eventType |-> t, data |-> originalData, error |-> cause,
     originalData |-> originalData, originalEventTypes |-> originalEventTypes]
InvalidEventData(t, value, cause, originalData, originalEventTypes) ==
    [name |-> "StackAssertionError", message |-> "Invalid event data for event type",
     eventType |-> t, data |-> value, error |-> cause,
     originalData |-> originalData, originalEventTypes |-> originalEventTypes]

\* [...allEventTypes].map(eventType => eventType.id)
IdsOf(heap, set) == [i \in 1 .. Len(set) |-> heap[set[i]].id]

EventRecord(heap, set, value, wide, range) ==
    [systemEventTypeIds |-> IdsOf(heap, set), data |-> value, isWide |-> wide,
     eventStartedAt |-> range.start, eventEndedAt |-> range.end]

(***************************************************************************)
(* Actions.                                                                *)
(***************************************************************************)
\* lines 71-80: the call starts and resolves its time extent
Begin(c) ==
    /\ pc[c] = "idle"
    /\ requests[c] # NoRequest
    /\ \E fresh \in NewDate(requests[c].options) :
          LET x == TimeOrTimeRange(requests[c].options, fresh)
          IN  /\ timeRange' = [timeRange EXCEPT ![c] = TimeRange(x)]
              /\ isWide' = [isWide EXCEPT ![c] = IsWide(x)]
              /\ now' = [now EXCEPT ![c] = fresh]
    /\ data' = [data EXCEPT ![c] = requests[c].data]
    /\ pc' = [pc EXCEPT ![c] = "check"]
    /\ UNCHANGED <<types, requests, allEventTypes, cursor, error, validated, created>>

\* lines 82-91
CheckEventTypes(c) ==
    /\ pc[c] = "check"
    /\ LET thrown == CheckEventTypesFrom(types, requests[c].eventTypes, 1)
       IN  /\ error' = [error EXCEPT ![c] = thrown]
           /\ pc' = [pc EXCEPT ![c] = IF thrown = NoError THEN "select" ELSE "failed"]
    /\ UNCHANGED <<types, requests, timeRange, isWide, allEventTypes, data,
                   cursor, validated, created, now>>

\* variant: one set shared by all calls
SelectEventTypesShared(c) ==
    /\ pc[c] = "select"
    /\ LET st == SelectAllEventTypes(types, requests[c].eventTypes)
       IN  /\ allEventTypes' = [d \in Calls |-> st]
           /\ pc' = [pc EXCEPT ![c] = IF st.overflow THEN "failed" ELSE "validate"]
           /\ error' = [error EXCEPT ![c] =
                           IF st.overflow THEN [name |-> "RangeError"] ELSE NoError]
    /\ cursor' = [cursor EXCEPT ![c] = 1]
    /\ UNCHANGED <<types, requests, timeRange, isWide, data, validated, created,
                   now>>

\* lines 94-103
SelectEventTypes(c) ==
    /\ pc[c] = "select"
    /\ LET st == SelectAllEventTypes(types, requests[c].eventTypes)
       IN  /\ allEventTypes' = [allEventTypes EXCEPT ![c] = st]
           /\ pc' = [pc EXCEPT ![c] = IF st.overflow THEN "failed" ELSE "validate"]
           /\ error' = [error EXCEPT ![c] =
                           IF st.overflow THEN [name |-> "RangeError"] ELSE NoError]
    /\ cursor' = [cursor EXCEPT ![c] = 1]
    /\ UNCHANGED <<types, requests, timeRange, isWide, data, validated, created,
                   now>>

\* variant: a ValidationError is recorded and the loop goes on
ValidateDataSwallowing(c) ==
    /\ pc[c] = "validate"
    /\ cursor[c] <= Len(allEventTypes[c].set)
    /\ LET t == allEventTypes[c].set[cursor[c]]
           r == SchemaValidate(types[t].dataSchema, data[c])
       IN  /\ validated' = [validated EXCEPT ![c] =
                               Append(@, [eventType |-> t, value |-> data[c]])]
           /\ cursor' = [cursor EXCEPT ![c] = @ + 1]
           /\ data' = [data EXCEPT ![c] = IF r.status = "fulfilled" THEN r.value ELSE @]
           /\ error' = [error EXCEPT ![c] = IF r.status = "fulfilled" THEN @ ELSE r.error]
    /\ UNCHANGED <<types, requests, pc, timeRange, isWide, allEventTypes, created,
                   now>>

\* variant: the result of validate is not assigned to data
ValidateDataDiscarding(c) ==
    /\ pc[c] = "validate"
    /\ cursor[c] <= Len(allEventTypes[c].set)
    /\ LET t == allEventTypes[c].set[cursor[c]]
           r == SchemaValidate(types[t].dataSchema, data[c])
       IN  /\ validated' = [validated EXCEPT ![c] =
                               Append(@, [eventType |-> t, value |-> data[c]])]
           /\ IF r.status = "fulfilled"
              THEN /\ cursor' = [cursor EXCEPT ![c] = @ + 1]
                   /\ UNCHANGED <<pc, error>>
              ELSE /\ pc' = [pc EXCEPT ![c] = "failed"]
                   /\ error' = [error EXCEPT ![c] =
                                   IF r.error.name = "ValidationError"
                                   THEN InvalidEventData(t, data[c], r.error,
                                                         requests[c].data,
                                                         requests[c].eventTypes)
                                   ELSE r.error]
                   /\ UNCHANGED cursor
    /\ UNCHANGED <<types, requests, timeRange, isWide, allEventTypes, created,
                   now, data>>

\* lines 108-117: one iteration of the for-of loop
ValidateData(c) ==
    /\ pc[c] = "validate"
    /\ cursor[c] <= Len(allEventTypes[c].set)
    /\ LET t == allEventTypes[c].set[cursor[c]]
           r == SchemaValidate(types[t].dataSchema, data[c])
       IN  /\ validated' = [validated EXCEPT ![c] =
                               Append(@, [eventType |-> t, value |-> data[c]])]
           /\ IF r.status = "fulfilled"
              THEN /\ data' = [data EXCEPT ![c] = r.value]
                   /\ cursor' = [cursor EXCEPT ![c] = @ + 1]
                   /\ UNCHANGED <<pc, error>>
              ELSE /\ pc' = [pc EXCEPT ![c] = "failed"]
                   /\ error' = [error EXCEPT ![c] =
                                   IF r.error.name = "ValidationError"
                                   THEN InvalidEventData(t, data[c], r.error,
                                                         requests[c].data,
                                                         requests[c].eventTypes)
                                   ELSE r.error]
                   /\ UNCHANGED <<data, cursor>>
    /\ UNCHANGED <<types, requests, timeRange, isWide, allEventTypes, created,
                   now>>

\* lines 120-129: the record is handed to the sink, which stores it or fails
CreateEvent(c) ==
    /\ pc[c] = "validate"
    /\ cursor[c] > Len(allEventTypes[c].set)
    /\ created' = [created EXCEPT ![c] =
                      Append(@, EventRecord(types, allEventTypes[c].set, data[c],
                                            isWide[c], timeRange[c]))]
    /\ \E stored \in BOOLEAN :
          /\ pc' = [pc EXCEPT ![c] = IF stored THEN "done" ELSE "failed"]
          /\ error' = [error EXCEPT ![c] =
                          IF stored THEN NoError ELSE [name |-> "PrismaClientError"]]
    /\ UNCHANGED <<types, requests, timeRange, isWide, allEventTypes, data,
                   cursor, validated, now>>

Next ==
    \E c \in Calls :
          \/ Begin(c)
          \/ CheckEventTypes(c)
          \/ SelectEventTypes(c)
          \/ ValidateData(c)
          \/ CreateEvent(c)

InitWith(heaps, reqs) ==
    /\ types \in heaps
    /\ requests \in reqs
    /\ pc = [c \in Calls |-> "idle"]
    /\ timeRange = [c \in Calls |-> NoTime]
    /\ isWide = [c \in Calls |-> FALSE]
    /\ allEventTypes = [c \in Calls |-> EmptyClosure]
    /\ data = [c \in Calls |-> <<>>]
    /\ cursor = [c \in Calls |-> 0]
    /\ error = [c \in Calls |-> NoError]
    /\ validated = [c \in Calls |-> <<>>]
    /\ created = [c \in Calls |-> <<>>]
    /\ now = [c \in Calls |-> NoTime]

\* one caller
OneCaller(reqs) == {[c \in Calls |-> IF c = 1 THEN r ELSE NoRequest] : r \in reqs}

\* One call, its arguments drawn from three families: every inheritance
\* graph with every request list; every schema with every payload; every
\* shape of options.time.
Init ==
    \/ InitWith(GraphHeaps, OneCaller(GraphRequests))
    \/ InitWith(PipelineHeaps, OneCaller(PipelineRequests))
    \/ InitWith(TimeHeaps, OneCaller(TimeRequests))
Spec == Init /\ [][Next]_vars

(***************************************************************************)
(* Concurrent calls: every caller has a request in flight.                 *)
(***************************************************************************)
ConcHeaps ==
    {Heap([id |-> <<"$", "project">>, dataSchema |-> Transform("Caller1"),
           inherits |-> <<"ApiRequest">>],
          [id |-> <<"$", "user-activity">>, dataSchema |-> [kind |-> "reject"],
           inherits |-> <<"Caller1">>])}
ConcRequests ==
    [eventTypes : {<<"UserActivity">>, <<"Caller1">>, <<"Caller2">>},
     data : {[projectId |-> "string"], FullPayload}, options : {<<>>}]

InitConc == InitWith(ConcHeaps, [Calls -> ConcRequests])
SpecConc == InitConc /\ [][Next]_vars

(***************************************************************************)
(* Definitions the properties are stated with.                             *)
(***************************************************************************)
Terminated(c) == pc[c] \in {"done", "failed"}
Requested(c) == requests[c].eventTypes

\* outside the system namespace, or not in the registry index
BadType(t) == types[t].id[1] # "$" \/ types[t].id \notin SystemEventTypeIds
ConfigurationError(e) ==
    /\ e.name = "StackAssertionError"
    /\ e.message \in {"Invalid system event type",
                      "Non-system event types are not supported yet"}
ValidationFailure(e) ==
    e.name = "StackAssertionError" /\ e.message = "Invalid event data for event type"

\* the types reachable from a set of types through inherits
RECURSIVE ReachableFrom(_, _)
ReachableFrom(heap, S) ==
    LET more == S \cup UNION {Range(heap[t].inherits) : t \in S}
    IN  IF more = S THEN S ELSE ReachableFrom(heap, more)
Acyclic(heap) ==
    \A t \in Types : t \notin ReachableFrom(heap, Range(heap[t].inherits))

\* depth-first pre-order of the types reachable from a list, each once
RECURSIVE PreOrder(_, _, _)
PreOrder(heap, list, visited) ==
    IF list = <<>> THEN <<>>
    ELSE IF Head(list) \in visited THEN PreOrder(heap, Tail(list), visited)
    ELSE LET sub == <<Head(list)>>
                    \o PreOrder(heap, heap[Head(list)].inherits, visited \cup {Head(list)})
         IN  sub \o PreOrder(heap, Tail(list), visited \cup Range(sub))

NoDuplicates(seq) == \A i, j \in 1 .. Len(seq) : seq[i] = seq[j] => i = j

\* what a list of schemas makes of a payload, applied one after another
RECURSIVE Piped(_, _, _)
Piped(heap, list, value) ==
    IF list = <<>> THEN Fulfilled(value)
    ELSE LET r == SchemaValidate(heap[Head(list)].dataSchema, value)
         IN  IF r.status = "fulfilled" THEN Piped(heap, Tail(list), r.value) ELSE r

\* the number of parents of the types of a sequence
RECURSIVE SumOfParents(_, _)
SumOfParents(heap, set) ==
    IF set = <<>> THEN 0
    ELSE Len(heap[Head(set)].inherits) + SumOfParents(heap, Tail(set))

\* logEvent run to its end with no other call in flight
RECURSIVE AlonePipeline(_, _, _, _, _)
AlonePipeline(heap, req, set, k, value) ==
    IF k > Len(set) THEN [error |-> NoError, value |-> value]
    ELSE LET r == SchemaValidate(heap[set[k]].dataSchema, value)
         IN  IF r.status = "fulfilled" THEN AlonePipeline(heap, req, set, k + 1, r.value)
             ELSE [error |-> IF r.error.name = "ValidationError"
                             THEN InvalidEventData(set[k], value, r.error, req.data,
                                                   req.eventTypes)
                             ELSE r.error,
                   value |-> value]

RunAlone(heap, req, fresh) ==
    LET x == TimeOrTimeRange(req.options, fresh)
        thrown == CheckEventTypesFrom(heap, req.eventTypes, 1)
        st == SelectAllEventTypes(heap, req.eventTypes)
        piped == AlonePipeline(heap, req, st.set, 1, req.data)
    IN  IF thrown # NoError THEN [error |-> thrown, created |-> <<>>]
        ELSE IF st.overflow THEN [error |-> [name |-> "RangeError"], created |-> <<>>]
        ELSE IF piped.error # NoError THEN [error |-> piped.error, created |-> <<>>]
        ELSE [error |-> NoError,
              created |-> <<EventRecord(heap, st.set, piped.value, IsWide(x),
                                        TimeRange(x))>>]

(***************************************************************************)
(* C1.  A call that requests at least one type whose identifier is outside *)
(* the system namespace or unknown to the registry fails with a            *)
(* configuration error, applies no schema and never invokes the sink,      *)
(* wherever the bad type stands in the list and whatever the other types   *)
(* and the payload are.                                                    *)
(***************************************************************************)
C1_BadTypeAborts ==
    \A c \in Calls :
        (/\ requests[c] # NoRequest
         /\ \E i \in 1 .. Len(Requested(c)) : BadType(Requested(c)[i]))
        => /\ validated[c] = <<>>
           /\ created[c] = <<>>
           /\ pc[c] \in {"idle", "check", "failed"}
           /\ pc[c] = "failed" => ConfigurationError(error[c])

\* the bad type is the second of the list, after a valid one, with a payload
\* every schema of the first accepts
C1_Witness ==
    /\ pc[1] = "failed"
    /\ Len(Requested(1)) = 2
    /\ ~BadType(Requested(1)[1])
    /\ BadType(Requested(1)[2])
    /\ requests[1].data = FullPayload
    /\ ConfigurationError(error[1])

(***************************************************************************)
(* C2.  The sink is invoked at most once per call; exactly once when the   *)
(* precondition check and every schema of the closure succeeded, never     *)
(* when an earlier step failed; its invocation ends the call: the whole    *)
(* closure has validated the payload before it and nothing runs after it.  *)
(***************************************************************************)
C2_SinkAtMostOnceAndLast ==
    \A c \in Calls :
        /\ Len(created[c]) <= 1
        /\ created[c] # <<>> =>
              /\ Terminated(c)
              /\ error[c].name \in {"none", "PrismaClientError"}
              /\ \A i \in 1 .. Len(Requested(c)) : ~BadType(Requested(c)[i])
              /\ Len(validated[c]) = Len(allEventTypes[c].set)
              /\ \A k \in 1 .. Len(validated[c]) :
                    /\ validated[c][k].eventType = allEventTypes[c].set[k]
                    /\ SchemaValidate(types[validated[c][k].eventType].dataSchema,
                                      validated[c][k].value).status = "fulfilled"
        /\ (Terminated(c) /\ error[c].name \in {"none", "PrismaClientError"})
              => Len(created[c]) = 1
        /\ (pc[c] = "failed" /\ error[c].name # "PrismaClientError") => created[c] = <<>>
        /\ (/\ pc[c] = "validate"
            /\ Len(validated[c]) = Len(allEventTypes[c].set)
            /\ cursor[c] > Len(allEventTypes[c].set)) => ENABLED CreateEvent(c)

\* a successful call over a closure of several types, and the sink invoked once
C2_Witness ==
    /\ pc[1] = "done"
    /\ Len(created[1]) = 1
    /\ Len(validated[1]) >= 3

(***************************************************************************)
(* C3.  Over an acyclic inherits graph and a non-empty list of valid       *)
(* requested types, the systemEventTypeIds of the persisted record are the *)
(* identifiers of exactly the types reachable from the requested ones,     *)
(* each type once, in depth-first pre-order: requested types in the order  *)
(* given, parents in declared order, a visited type skipped.               *)
(***************************************************************************)
C3_ClosureIsPreOrder ==
    \A c \in Calls :
        (created[c] # <<>> /\ Acyclic(types) /\ Requested(c) # <<>>)
        => LET order == PreOrder(types, Requested(c), {})
               reach == ReachableFrom(types, Range(Requested(c)))
               ids   == created[c][1].systemEventTypeIds
           IN  /\ Len(ids) = Cardinality(reach)
               /\ Range(order) = reach
               /\ NoDuplicates(order)
               /\ ids = [i \in 1 .. Len(order) |-> types[order[i]].id]

\* the diamond: Caller1 inherits ProjectActivity and ApiRequest, which both
\* inherit Project; the record lists Caller1, ProjectActivity, Project, ApiRequest
C3_Witness ==
    /\ created[1] # <<>>
    /\ Acyclic(types)
    /\ Requested(1) = <<"Caller1">>
    /\ types["Caller1"].inherits = <<"ProjectActivity", "ApiRequest">>
    /\ allEventTypes[1].set = <<"Caller1", "ProjectActivity", "Project", "ApiRequest">>
    /\ created[1][1].systemEventTypeIds =
          <<types["Caller1"].id, <<"$", "project-activity">>, <<"$", "project">>,
            <<"$", "api-request">>>>

(***************************************************************************)
(* C4.  The time extent of the persisted record follows the shape of       *)
(* options.time alone: absent, eventStartedAt = eventEndedAt = the instant *)
(* new Date() gave as the call started and isWide = false; an instant t,   *)
(* both are t and isWide = false; a {start, end} pair, they are start and  *)
(* end and isWide = true, also when start = end.  Hence a record that is   *)
(* not wide has eventStartedAt = eventEndedAt.                             *)
(***************************************************************************)
C4_TimeExtentByShape ==
    \A c \in Calls :
        created[c] # <<>> =>
            LET r == created[c][1]
                o == requests[c].options
            IN  /\ "time" \notin DOMAIN o =>
                      /\ now[c] # NoTime
                      /\ r.eventStartedAt = now[c]
                      /\ r.eventEndedAt = now[c]
                      /\ r.isWide = FALSE
                /\ ("time" \in DOMAIN o /\ "date" \in DOMAIN o.time) =>
                      /\ r.eventStartedAt = o.time
                      /\ r.eventEndedAt = o.time
                      /\ r.isWide = FALSE
                /\ ("time" \in DOMAIN o /\ "start" \in DOMAIN o.time) =>
                      /\ r.eventStartedAt = o.time.start
                      /\ r.eventEndedAt = o.time.end
                      /\ r.isWide = TRUE
                /\ r.isWide = FALSE => r.eventStartedAt = r.eventEndedAt

\* an explicit degenerate interval was persisted as a wide event
C4_Witness ==
    /\ created[1] # <<>>
    /\ "time" \in DOMAIN requests[1].options
    /\ "start" \in DOMAIN requests[1].options.time
    /\ created[1][1].isWide
    /\ created[1][1].eventStartedAt = created[1][1].eventEndedAt

(***************************************************************************)
(* C5.  When a schema of the closure rejects the payload the pipeline      *)
(* stops at the first rejecting type in closure order: no schema of a      *)
(* later type is applied, and the call fails with a validation failure     *)
(* that carries the rejecting type, the payload as it was given to that    *)
(* schema (the output of the schemas before it), the schema's error, the   *)
(* caller's original payload and the originally requested type list.       *)
(***************************************************************************)
C5_StopsAtFirstRejection ==
    \A c \in Calls :
        LET set == allEventTypes[c].set
            k   == Len(validated[c])
        IN  /\ \A j \in 1 .. k :
                  /\ j <= Len(set)
                  /\ validated[c][j].eventType = set[j]
                  /\ j < k => Piped(types, SubSeq(set, 1, j), requests[c].data).status
                                 = "fulfilled"
            /\ (pc[c] = "failed" /\ ValidationFailure(error[c])) =>
                  LET given == Piped(types, SubSeq(set, 1, k - 1), requests[c].data)
                  IN  /\ k >= 1
                      /\ given.status = "fulfilled"
                      /\ error[c].eventType = set[k]
                      /\ error[c].data = given.value
                      /\ error[c].error.name = "ValidationError"
                      /\ SchemaValidate(types[set[k]].dataSchema, given.value)
                            = Rejected(error[c].error)
                      /\ error[c].originalData = requests[c].data
                      /\ error[c].originalEventTypes = Requested(c)
                      /\ created[c] = <<>>
            /\ (Terminated(c) /\ ~ConfigurationError(error[c]) /\ error[c].name # "RangeError"
                /\ Piped(types, set, requests[c].data).status = "rejected"
                /\ Piped(types, set, requests[c].data).error.name = "ValidationError")
                  => ValidationFailure(error[c])

\* the second of four types rejected a payload the first had transformed
C5_Witness ==
    /\ pc[1] = "failed"
    /\ ValidationFailure(error[1])
    /\ Len(validated[1]) = 2
    /\ Len(allEventTypes[1].set) = 4
    /\ error[1].data # error[1].originalData

(***************************************************************************)
(* C6.  A call whose requested type list is empty is rejected before       *)
(* closure resolution: it fails, the sink is never invoked, and no record  *)
(* with an empty systemEventTypeIds is persisted.                          *)
(***************************************************************************)
C6_EmptyListRejected ==
    \A c \in Calls :
        /\ (requests[c] # NoRequest /\ Requested(c) = <<>>) =>
              /\ created[c] = <<>>
              /\ pc[c] # "done"
        /\ \A i \in 1 .. Len(created[c]) : created[c][i].systemEventTypeIds # <<>>

(***************************************************************************)
(* C7.  The schemas of the closure are applied one after another in        *)
(* closure order, the first to the caller's payload and each later one to  *)
(* the output of the one before it; the data of the persisted record is    *)
(* the output of the last application (the caller's payload when the       *)
(* closure is empty).                                                      *)
(***************************************************************************)
C7_SequentialPipeline ==
    \A c \in Calls :
        LET set == allEventTypes[c].set
            v   == validated[c]
            out(k) == SchemaValidate(types[v[k].eventType].dataSchema, v[k].value)
        IN  /\ \A k \in 1 .. Len(v) :
                  /\ k <= Len(set) /\ v[k].eventType = set[k]
                  /\ k = 1 => v[k].value = requests[c].data
                  /\ k > 1 => /\ out(k - 1).status = "fulfilled"
                              /\ v[k].value = out(k - 1).value
            /\ created[c] # <<>> =>
                  /\ Len(v) = Len(set)
                  /\ created[c][1].data =
                        IF set = <<>> THEN requests[c].data ELSE out(Len(v)).value

\* the record holds the output of the last schema, which is neither the
\* caller's payload nor the payload the last schema was given
C7_Witness ==
    /\ created[1] # <<>>
    /\ Len(validated[1]) >= 2
    /\ created[1][1].data # requests[1].data
    /\ created[1][1].data # validated[1][Len(validated[1])].value
    /\ validated[1][Len(validated[1])].value # requests[1].data

(***************************************************************************)
(* C8.  Closure resolution terminates on every finite inherits graph,      *)
(* cyclic ones included: the membership test lets each type be entered at  *)
(* most once, so addEventType is invoked once per requested type and once  *)
(* per parent of an entered type, the recursion never exhausts the stack,  *)
(* and the call goes on to validation.                                     *)
(***************************************************************************)
C8_ClosureTerminates ==
    \A c \in Calls :
        /\ error[c].name # "RangeError"
        /\ pc[c] = "select" => ~SelectAllEventTypes(types, Requested(c)).overflow
        /\ pc[c] \in {"validate", "done"} \/ validated[c] # <<>> \/ created[c] # <<>>
           \/ (pc[c] = "failed" /\ ~ConfigurationError(error[c])) =>
              LET st == allEventTypes[c]
              IN  /\ ~st.overflow
                  /\ NoDuplicates(st.set)
                  /\ Range(st.set) = ReachableFrom(types, Range(Requested(c)))
                  /\ st.calls = Len(Requested(c)) + SumOfParents(types, st.set)
                  /\ st.depth <= Cardinality(Types)

\* a cycle of two caller-made types was traversed and the call went on
C8_Witness ==
    /\ pc[1] = "validate"
    /\ types["Caller1"].inherits = <<"Caller2", "Caller1">>
    /\ types["Caller2"].inherits = <<"Caller1">>
    /\ allEventTypes[1].set = <<"Caller1", "Caller2">>
    /\ allEventTypes[1].calls = 4

(***************************************************************************)
(* C9.  In every call that reaches the sink, every type of the closure, a  *)
(* requested type or an ancestor of one, is an event type of the registry: *)
(* every identifier of the persisted systemEventTypeIds is the identifier  *)
(* of a registered system event type.                                      *)
(***************************************************************************)
C9_ClosureWithinRegistry ==
    \A c \in Calls :
        \A i \in 1 .. Len(created[c]) :
            \A k \in 1 .. Len(created[c][i].systemEventTypeIds) :
                created[c][i].systemEventTypeIds[k] \in SystemEventTypeIds

(***************************************************************************)
(* C10.  However the steps of concurrent calls interleave, each call ends  *)
(* as it would have ended alone with the same arguments: the same kind of  *)
(* outcome and the same record handed to the sink; the registry's event    *)
(* types stay as defined, and a call that has not reached the sink has     *)
(* handed it nothing.                                                      *)
(***************************************************************************)
C10_CallsAreIndependent ==
    /\ \A t \in SystemTypes : types[t] = SystemEventTypes[t]
    /\ \A c \in Calls :
          LET alone == RunAlone(types, requests[c], now[c])
          IN  /\ ~Terminated(c) => created[c] = <<>>
              /\ Terminated(c) =>
                    /\ created[c] = alone.created
                    /\ \/ error[c] = alone.error
                       \/ error[c].name = "PrismaClientError" /\ alone.error = NoError

\* the second call started first and is still in the middle of its pipeline
\* when the first, with other arguments, has already stored its record
C10_Witness ==
    /\ pc[1] = "done"
    /\ pc[2] = "validate"
    /\ validated[2] # <<>>
    /\ cursor[2] <= Len(allEventTypes[2].set)
    /\ requests[1] # requests[2]
    /\ allEventTypes[1].set # allEventTypes[2].set

====
